---- MODULE Spec2Model ----
(***************************************************************************)
(* Provenance tools of ZQ-DDC-T1: the manifest signer (sign_manifest.py),  *)
(* the verifier (verify_manifest.py), the release gate                     *)
(* (tag_protect_unsigned.py), the schema URI check (check_schema_uri.py)   *)
(* and the hash inventory builder (hash_inventory.py).  A manifest is an   *)
(* ordered YAML mapping; the external minisign primitive is an ideal       *)
(* signature scheme: it accepts a signature exactly when that signature    *)
(* was issued for the same payload bytes under the matching key.  SHA-256  *)
(* is an ideal digest: the digest of a byte string is the term of it.      *)
(***************************************************************************)
EXTENDS Integers, Sequences, FiniteSets, TLC

\* ------------------------------------------------------------------ bounds

\* How many fresh signature strings the external signer hands out in a run.
MaxSigs == 2
\* How many edits a manifest file takes after it was last signed.
MaxEdits == 1
\* How many changes the hashed file tree takes between inventory runs.
MaxChanges == 1

\* ------------------------------------------------------- documents (values)

\* A loaded YAML value: a string, null, or an ordered mapping (OrderedDict),
\* the mapping a sequence of entries [k, v] in insertion order.
Str(s) == [t |-> "str", s |-> s, m |-> <<>>]
Null == [t |-> "null", s |-> "", m |-> <<>>]
Map(m) == [t |-> "map", s |-> "", m |-> m]
Entry(k, v) == [k |-> k, v |-> v]

\* key in mapping
HasKey(m, k) == \E i \in 1..Len(m) : m[i].k = k
\* mapping[key]
Get(m, k) == m[CHOOSE i \in 1..Len(m) : m[i].k = k].v
\* del mapping[key]: the other entries keep their order
DelKey(m, k) == SelectSeq(m, LAMBDA e : e.k # k)
\* mapping[key] = v: an existing key keeps its position, a new key goes last
SetKey(m, k, v) ==
  IF HasKey(m, k)
  THEN [i \in 1..Len(m) |-> IF m[i].k = k THEN Entry(k, v) ELSE m[i]]
  ELSE Append(m, Entry(k, v))

\* Python's `needle in text` on a str: the texts of this model hold a key
\* name only when they are that key name.
StrContains(text, needle) == text = needle
\* Python's `k in v` for a mapping or a str (None raises TypeError, see callers)
PyIn(k, v) == IF v.t = "map" THEN HasKey(v.m, k) ELSE StrContains(v.s, k)
\* Python truthiness: `not v` is ~Truthy(v)
Truthy(v) ==
  CASE v.t = "map" -> v.m # <<>>
    [] v.t = "str" -> v.s # ""
    [] OTHER -> FALSE

\* The placeholder sentinel of an unsigned manifest.
Placeholder == "${MINISIGN_SIG}"

\* --------------------------------------------- ordered_dump / ordered_load

\* One line of block-style YAML: indentation depth, key, and what follows the
\* colon: a nested block ("map"), `{}` ("emptymap"), a string or null.
Line(ind, key, kind, text) == [ind |-> ind, key |-> key, kind |-> kind, text |-> text]

RECURSIVE DumpMap(_, _)
DumpMap(m, ind) ==
  IF m = <<>> THEN <<>>
  ELSE LET e == Head(m)
           first ==
             IF e.v.t = "map"
             THEN IF e.v.m = <<>>
                  THEN <<Line(ind, e.k, "emptymap", "")>>
                  ELSE <<Line(ind, e.k, "map", "")>> \o DumpMap(e.v.m, ind + 1)
             ELSE <<Line(ind, e.k, e.v.t, e.v.s)>>
       IN first \o DumpMap(Tail(m), ind)

\* yaml.dump(data, sort_keys=False, default_flow_style=False): keys in
\* insertion order, an empty mapping as `{}`.
ordered_dump(v) ==
  IF v.t = "map"
  THEN IF v.m = <<>> THEN <<Line(0, "", "emptymap", "")>> ELSE DumpMap(v.m, 0)
  ELSE <<Line(0, "", v.t, v.s)>>

\* The lines after a key line that belong to its nested block.
ChildCount(rest, ind) ==
  LET stop == {i \in 1..Len(rest) : rest[i].ind <= ind}
  IN IF stop = {} THEN Len(rest)
     ELSE (CHOOSE i \in stop : \A j \in stop : i <= j) - 1

LineValue(h, children) ==
  CASE h.kind = "map" -> Map(children)
    [] h.kind = "emptymap" -> Map(<<>>)
    [] h.kind = "str" -> Str(h.text)
    [] OTHER -> Null

RECURSIVE ParseBlock(_, _)
ParseBlock(lines, ind) ==
  IF lines = <<>> THEN <<>>
  ELSE LET h == Head(lines)
           rest == Tail(lines)
           n == ChildCount(rest, ind)
           children == ParseBlock(SubSeq(rest, 1, n), ind + 1)
       IN <<Entry(h.key, LineValue(h, children))>>
            \o ParseBlock(SubSeq(rest, n + 1, Len(rest)), ind)

\* yaml.load with the ordered loader: an empty file loads as None.
ordered_load(lines) ==
  IF lines = <<>> THEN Null
  ELSE IF lines[1].key = "" THEN LineValue(lines[1], <<>>)
  ELSE Map(ParseBlock(lines, 0))

\* -------------------------------------------------------- signature codec

\* What a call returns: `raised` when it ends in an uncaught exception, `ret`
\* the value returned, `arg` the caller's argument object after the call (the
\* nested mappings of a shallow copy are shared with the original).
Returned(ret, arg) == [raised |-> FALSE, ret |-> ret, arg |-> arg]
Raised(arg) == [raised |-> TRUE, ret |-> Null, arg |-> arg]

\* remove_signature: manifest.copy() is shallow, so deleting 'value' and an
\* emptied 'signature' changes the caller's nested mappings too; deleting an
\* emptied 'signing' changes the copy only.
remove_signature(manifest) ==
  IF manifest.t # "map" THEN Raised(manifest)            \* no .copy()
  ELSE IF ~HasKey(manifest.m, "signing") THEN Returned(manifest, manifest)
  ELSE LET signing == Get(manifest.m, "signing") IN
    IF signing.t = "null" THEN Raised(manifest)          \* 'signature' in None
    ELSE IF ~PyIn("signature", signing) THEN Returned(manifest, manifest)
    ELSE IF signing.t # "map" THEN Raised(manifest)      \* str['signature']
    ELSE LET signature == Get(signing.m, "signature") IN
      IF signature.t = "null" THEN Raised(manifest)      \* 'value' in None
      ELSE IF signature.t = "str" /\ PyIn("value", signature)
      THEN Raised(manifest)                              \* del str['value']
      ELSE LET sig1 == IF signature.t = "map"
                       THEN Map(DelKey(signature.m, "value"))
                       ELSE signature
               sgn1 == IF ~Truthy(sig1)
                       THEN Map(DelKey(signing.m, "signature"))
                       ELSE Map(SetKey(signing.m, "signature", sig1))
               shared == Map(SetKey(manifest.m, "signing", sgn1))
           IN IF ~Truthy(sgn1)
              THEN Returned(Map(DelKey(manifest.m, "signing")), shared)
              ELSE Returned(shared, shared)

\* canonical_payload of the signer: the bytes handed to the external signer.
canonical_payload(manifest) ==
  LET clean == remove_signature(manifest)
  IN IF clean.raised THEN clean
     ELSE Returned(ordered_dump(clean.ret), clean.arg)

\* insert_signature: creates the missing sections at the end of their parent
\* and sets signing.signature.value, in place.
insert_signature(manifest, signature) ==
  LET m1 == IF HasKey(manifest.m, "signing") THEN manifest.m
            ELSE Append(manifest.m, Entry("signing", Map(<<>>)))
      signing == Get(m1, "signing")
  IN IF signing.t = "null" THEN Raised(Map(m1))          \* 'signature' in None
     ELSE IF signing.t # "map" THEN Raised(Map(m1))      \* str item assignment
     ELSE LET s1 == IF HasKey(signing.m, "signature") THEN signing.m
                    ELSE Append(signing.m, Entry("signature", Map(<<>>)))
              sigsec == Get(s1, "signature")
          IN IF sigsec.t # "map" THEN Raised(Map(SetKey(m1, "signing", Map(s1))))
             ELSE LET out == Map(SetKey(m1, "signing",
                               Map(SetKey(s1, "signature",
                                 Map(SetKey(sigsec.m, "value", Str(signature)))))))
                  IN Returned(out, out)

\* remove_signature and canonical_payload of verify_manifest.py: the same
\* statements as the signer's.
verify_remove_signature(manifest) == remove_signature(manifest)

verify_canonical_payload(manifest) ==
  LET clean == verify_remove_signature(manifest)
  IN IF clean.raised THEN clean
     ELSE Returned(ordered_dump(clean.ret), clean.arg)

\* The None that extract_signature returns.
NoValue == [t |-> "none", s |-> "", m |-> <<>>]

\* Faulty variant: the KeyError of a missing key is not caught.
extract_signature_uncaught(manifest) ==
  IF manifest.t # "map" THEN Raised(manifest)
  ELSE IF ~HasKey(manifest.m, "signing") THEN Raised(manifest)
  ELSE LET signing == Get(manifest.m, "signing") IN
    IF signing.t # "map" THEN Raised(manifest)
    ELSE IF ~HasKey(signing.m, "signature") THEN Raised(manifest)
    ELSE LET signature == Get(signing.m, "signature") IN
      IF signature.t # "map" THEN Raised(manifest)
      ELSE IF ~HasKey(signature.m, "value") THEN Raised(manifest)
      ELSE Returned(Get(signature.m, "value"), manifest)

\* extract_signature: manifest['signing']['signature']['value'], None on a
\* KeyError; subscripting None or a str raises TypeError, which is not caught.
extract_signature(manifest) ==
  IF manifest.t # "map" THEN Raised(manifest)
  ELSE IF ~HasKey(manifest.m, "signing") THEN Returned(NoValue, manifest)
  ELSE LET signing == Get(manifest.m, "signing") IN
    IF signing.t # "map" THEN Raised(manifest)
    ELSE IF ~HasKey(signing.m, "signature") THEN Returned(NoValue, manifest)
    ELSE LET signature == Get(signing.m, "signature") IN
      IF signature.t # "map" THEN Raised(manifest)
      ELSE IF ~HasKey(signature.m, "value") THEN Returned(NoValue, manifest)
      ELSE Returned(Get(signature.m, "value"), manifest)

\* ------------------------------------------------------------------ state

\* The files of the working tree: the manifests of directory "manifest".
Paths == {"manifest/a.yaml", "manifest/b.yml", "manifest/sub/c.yaml"}
\* os.path.dirname / os.path.basename / the suffix of each path
DirName(p) == IF p = "manifest/sub/c.yaml" THEN "manifest/sub" ELSE "manifest"
BaseName(p) ==
  CASE p = "manifest/a.yaml" -> "a.yaml"
    [] p = "manifest/b.yml" -> "b.yml"
    [] OTHER -> "c.yaml"
Suffix(p) == IF p = "manifest/b.yml" THEN ".yml" ELSE ".yaml"
\* The order sorted() puts the path strings in.
PathRank(p) ==
  CASE p = "manifest/a.yaml" -> 1
    [] p = "manifest/b.yml" -> 2
    [] OTHER -> 3

\* minisign key pairs: the secret key file k signs, the public key file k
\* verifies.  A public key argument may also name a file that does not exist
\* or be None.
SecretKeys == {"k1"}
PubArgs == {"k1", "k2", "missing", "none"}

NoFile == [exists |-> FALSE, lines |-> <<>>]
File(lines) == [exists |-> TRUE, lines |-> lines]

VARIABLES
  files,     \* path -> NoFile or File(lines)
  issued,    \* the signatures the external signer has produced: [sig, key, payload]
  nsig,      \* how many signature strings were handed out
  binding,   \* the verify_manifest the gate module got: "imported" or "inline"
  signed,    \* path -> what the last sign_manifest run on it signed, and the edit since
  edits,     \* how many edits were made to the files by hand
  last,      \* the last operation and its outcome
  tree,      \* the file tree hash_inventory walks: relative path -> file
  hi,        \* the hash_inventory run: where it stands and its variables
  out,       \* the --out file on disk
  hist       \* the arguments of the runs, the previous run's inventory and tree

invVars == <<tree, hi, out, hist>>
vars == <<files, issued, nsig, binding, signed, edits, last, tree, hi, out, hist>>

\* ---------------------------------------------------- external primitive

\* minisign -S: a signature string for (key, payload).  The scheme may be
\* randomized: a fresh string, or one already issued for the same input.
SigName(n) == "sig" \o ToString(n)
SignChoices(key, payload) ==
  {r.sig : r \in {x \in issued : x.key = key /\ x.payload = payload}}
    \cup (IF nsig < MaxSigs THEN {SigName(nsig + 1)} ELSE {})

\* minisign -V: accepts exactly the signatures issued for these payload
\* bytes under the secret key of this public key.
verify_detached(payload, signature, pubkey) ==
  \E r \in issued : r.sig = signature /\ r.key = pubkey /\ r.payload = payload

\* ------------------------------------------------------------ verify_manifest

\* What an operation reports: it raised, or it returned `ok`.
Outcome(raised, ok) == [raised |-> raised, ok |-> ok]

\* verify_with_minisign: Path(None) raises; a missing key file is a failure;
\* writing a signature that is no str to the temporary file raises.
verify_with_minisign(payload, signature, pubkey) ==
  IF pubkey = "none" THEN Outcome(TRUE, FALSE)
  ELSE IF pubkey = "missing" THEN Outcome(FALSE, FALSE)
  ELSE IF signature.t # "str" THEN Outcome(TRUE, FALSE)
  ELSE Outcome(FALSE, verify_detached(payload, signature.s, pubkey))

\* verify_manifest of verify_manifest.py on the file at path p.
verify_manifest(p, pubkey) ==
  IF ~files[p].exists THEN Outcome(FALSE, FALSE)
  ELSE LET manifest == ordered_load(files[p].lines)
           signature == extract_signature(manifest)
       IN IF signature.raised THEN Outcome(TRUE, FALSE)
          ELSE IF signature.ret.t = "none" \/ ~Truthy(signature.ret)
          THEN Outcome(FALSE, FALSE)
          ELSE LET payload == verify_canonical_payload(manifest)
               IN IF payload.raised THEN Outcome(TRUE, FALSE)
                  ELSE verify_with_minisign(payload.ret, signature.ret, pubkey)

\* ------------------------------------------- the gate's inline verify_manifest

\* The order of the key strings (code point order), for sort_keys=True.
KeyRank(k) ==
  CASE k = "created_at" -> 1
    [] k = "doc_index" -> 2
    [] k = "extra" -> 3
    [] k = "key_id" -> 4
    [] k = "name" -> 5
    [] k = "signature" -> 6
    [] k = "signing" -> 7
    [] OTHER -> 8

RECURSIVE SortedEntries(_)
SortedEntries(m) ==
  IF m = <<>> THEN <<>>
  ELSE LET i == CHOOSE x \in 1..Len(m) :
                  \A j \in 1..Len(m) : KeyRank(m[x].k) <= KeyRank(m[j].k)
       IN <<m[i]>> \o SortedEntries(SubSeq(m, 1, i - 1) \o SubSeq(m, i + 1, Len(m)))

RECURSIVE JsonValue(_, _, _)
RECURSIVE JsonMembers(_, _)
JsonMembers(m, depth) ==
  IF m = <<>> THEN <<>>
  ELSE JsonValue(Head(m).k, Head(m).v, depth) \o JsonMembers(Tail(m), depth)
JsonValue(key, v, depth) ==
  IF v.t = "map"
  THEN <<Line(depth, key, "jobject", "")>> \o JsonMembers(SortedEntries(v.m), depth + 1)
  ELSE <<Line(depth, key, IF v.t = "str" THEN "jstring" ELSE "jnull", v.s)>>

\* canonical(obj): compact JSON with sorted keys.
canonical(obj) == JsonValue("", obj, 0)

\* dict.get(key, default) of a mapping
GetOr(m, k, default) == IF HasKey(m, k) THEN Get(m, k) ELSE default

Verdict(raised, success, message, payload) ==
  [raised |-> raised, success |-> success, message |-> message, payload |-> payload]

\* The payload the inline verifier signs off: doc_index with
\* signing.signature.value deleted, emptied sections kept.
inline_payload_data(doc_index) ==
  IF HasKey(doc_index.m, "signing") /\ HasKey(Get(doc_index.m, "signing").m, "signature")
  THEN LET signing == Get(doc_index.m, "signing")
           signature == Get(signing.m, "signature")
       IN Map(SetKey(doc_index.m, "signing",
            Map(SetKey(signing.m, "signature", Map(DelKey(signature.m, "value"))))))
  ELSE doc_index

\* Faulty variant: the comparison with the sentinel is left out.
inline_presence_any(signature_value) == Truthy(signature_value)

\* The presence-only check made when no public key is given.
inline_presence(signature_value) ==
  Truthy(signature_value) /\ signature_value # Str(Placeholder)

\* verify_manifest defined inline in tag_protect_unsigned.py (used when
\* verify_manifest.py cannot be imported).
inline_verify_manifest(p, pubkey) ==
  IF ~files[p].exists THEN Verdict(FALSE, FALSE, "Failed to load manifest", <<>>)
  ELSE LET data == ordered_load(files[p].lines) IN
    IF data.t # "map" THEN Verdict(TRUE, FALSE, "", <<>>)
    ELSE LET doc_index == GetOr(data.m, "doc_index", Map(<<>>)) IN
    IF doc_index.t # "map" THEN Verdict(TRUE, FALSE, "", <<>>)
    ELSE LET signing == GetOr(doc_index.m, "signing", Map(<<>>)) IN
    IF signing.t # "map" THEN Verdict(TRUE, FALSE, "", <<>>)
    ELSE LET signature_obj == GetOr(signing.m, "signature", Map(<<>>)) IN
    IF signature_obj.t # "map" THEN Verdict(TRUE, FALSE, "", <<>>)
    ELSE LET signature_value == GetOr(signature_obj.m, "value", Str(""))
             canonical_payload_ == canonical(inline_payload_data(doc_index))
         IN
    IF ~Truthy(signature_value)
    THEN Verdict(FALSE, FALSE, "No signature found in manifest", <<>>)
    ELSE IF pubkey # "none"
    THEN IF pubkey = "missing"
         THEN Verdict(FALSE, FALSE, "Public key not found", canonical_payload_)
         ELSE IF signature_value.t # "str"
         THEN Verdict(FALSE, FALSE, "Verification error", canonical_payload_)
         ELSE IF verify_detached(canonical_payload_, signature_value.s, pubkey)
         THEN Verdict(FALSE, TRUE, "Signature verified successfully", canonical_payload_)
         ELSE Verdict(FALSE, FALSE, "Signature verification failed", canonical_payload_)
    ELSE IF inline_presence(signature_value)
         THEN Verdict(FALSE, TRUE, "Signature present", canonical_payload_)
         ELSE Verdict(FALSE, FALSE, "Signature is placeholder or empty", canonical_payload_)

\* -------------------------------------------------------- check_tag_protection

\* glob.glob(manifest_dir/*.yaml) + glob.glob(manifest_dir/*.yml): the files
\* directly in manifest_dir with a manifest suffix.
Discovered(manifest_dir) ==
  {p \in Paths : files[p].exists /\ DirName(p) = manifest_dir
                   /\ Suffix(p) \in {".yaml", ".yml"}}

\* sorted(manifests)
RECURSIVE SortedPaths(_)
SortedPaths(S) ==
  IF S = {} THEN <<>>
  ELSE LET p == CHOOSE x \in S : \A y \in S : PathRank(x) <= PathRank(y)
       IN <<p>> \o SortedPaths(S \ {p})

GateResult(raised, all_valid, results) ==
  [raised |-> raised, all_valid |-> all_valid, results |-> results]
ResultEntry(p, v) ==
  [manifest |-> BaseName(p), path |-> p, success |-> v.success,
   message |-> v.message, payload |-> v.payload]

\* The loop of check_tag_protection over the sorted manifests: with the
\* imported verify_manifest, which returns a bool,
\* `success, message = verify_manifest(...)` raises TypeError at the first
\* manifest; with the inline one every manifest is evaluated.
GateLoop(manifests, pubkey) ==
  IF manifests = <<>> THEN GateResult(FALSE, TRUE, <<>>)
  ELSE IF binding = "imported" THEN GateResult(TRUE, FALSE, <<>>)
  ELSE LET verdicts == [i \in 1..Len(manifests) |->
                          inline_verify_manifest(manifests[i], pubkey)]
       IN IF \E i \in 1..Len(manifests) : verdicts[i].raised
          THEN GateResult(TRUE, FALSE, <<>>)
          ELSE GateResult(FALSE,
                 \A i \in 1..Len(manifests) : verdicts[i].success,
                 [i \in 1..Len(manifests) |-> ResultEntry(manifests[i], verdicts[i])])

\* Faulty variant: the `if not manifests` check is left out.
check_tag_protection_noempty(manifest_dir, pubkey) ==
  GateLoop(SortedPaths(Discovered(manifest_dir)), pubkey)

\* check_tag_protection(manifest_dir, pubkey_path): no manifest found is a
\* failure; otherwise the loop decides.
check_tag_protection(manifest_dir, pubkey) ==
  LET manifests == SortedPaths(Discovered(manifest_dir)) IN
  IF manifests = <<>>
  THEN GateResult(FALSE, FALSE,
         <<[manifest |-> "", path |-> "", success |-> FALSE,
            message |-> "No manifests found", payload |-> <<>>]>>)
  ELSE GateLoop(manifests, pubkey)

\* ---------------------------------------------------------------- actions

NotSigned == [state |-> "none", key |-> "", sig |-> "", payload |-> <<>>]
Report(op, p, pubkey, raised, ok, payload, results) ==
  [op |-> op, path |-> p, pubkey |-> pubkey, raised |-> raised, ok |-> ok,
   payload |-> payload, results |-> results]

\* What a sign_manifest run reports: its arguments, what the external signer
\* did, why the run stopped ("" when it wrote the signed manifest) and the
\* file it wrote.
SignReport(p, key, output_path, signer, raised, ok, payload, why, written) ==
  [op |-> "sign", path |-> p, pubkey |-> "none", raised |-> raised, ok |-> ok,
   payload |-> payload, results |-> <<>>, key |-> key, output |-> output_path,
   signer |-> signer, why |-> why, written |-> written]

\* The secret key files the signer is pointed at ("nokey": no such file) and
\* what the external minisign does when run: it signs, exits with an error,
\* or is not installed.
KeyArgs == SecretKeys \cup {"nokey"}
SignerModes == {"ok", "error", "notfound"}
NoOutput == ""

\* subprocess.run(check=False) instead: a failed signer goes unnoticed and its
\* empty stdout is taken for the signature.
sign_with_minisign_unchecked(payload, key, signer) ==
  IF signer = "ok"
  THEN [exit |-> FALSE, sigs |-> SignChoices(key, payload)]
  ELSE [exit |-> FALSE, sigs |-> {""}]

\* sign_with_minisign(payload, secret_key_path): the signature minisign
\* prints; sys.exit(1) on CalledProcessError and on FileNotFoundError.
sign_with_minisign(payload, key, signer) ==
  IF signer = "ok"
  THEN [exit |-> FALSE, sigs |-> SignChoices(key, payload)]
  ELSE [exit |-> TRUE, sigs |-> {}]

\* sign_manifest(manifest_path, secret_key_path, output_path): the two
\* existence checks, load, canonical payload, external signature, insert,
\* then one write, to output_path when given and over the manifest otherwise.
SignManifestRun(p, key, output_path, signer) ==
  /\ IF ~files[p].exists
     THEN /\ last' = SignReport(p, key, output_path, signer, FALSE, FALSE, <<>>, "manifest-missing", "")
          /\ UNCHANGED <<files, issued, nsig, signed>>
     ELSE IF key \notin SecretKeys
     THEN /\ last' = SignReport(p, key, output_path, signer, FALSE, FALSE, <<>>, "key-missing", "")
          /\ UNCHANGED <<files, issued, nsig, signed>>
     ELSE
     LET manifest == ordered_load(files[p].lines)
         payload == canonical_payload(manifest)
         target == IF output_path # NoOutput THEN output_path ELSE p
     IN IF payload.raised
        THEN /\ last' = SignReport(p, key, output_path, signer, TRUE, FALSE, <<>>, "raised", "")
             /\ UNCHANGED <<files, issued, nsig, signed>>
        ELSE
        LET signature == sign_with_minisign(payload.ret, key, signer)
        IN IF signature.exit
           THEN /\ last' = SignReport(p, key, output_path, signer, FALSE, FALSE, payload.ret, "signer-failed", "")
                /\ UNCHANGED <<files, issued, nsig, signed>>
           ELSE \E sig \in signature.sigs :
               LET signed_manifest == insert_signature(payload.arg, sig)
                   fresh == \A r \in issued : r.sig # sig
               IN /\ issued' = issued \cup
                        {[sig |-> sig, key |-> key, payload |-> payload.ret]}
                  /\ nsig' = IF fresh THEN nsig + 1 ELSE nsig
                  /\ IF signed_manifest.raised
                     THEN /\ last' = SignReport(p, key, output_path, signer, TRUE, FALSE, payload.ret, "raised", "")
                          /\ UNCHANGED <<files, signed>>
                     ELSE /\ files' = [files EXCEPT
                                 ![target] = File(ordered_dump(signed_manifest.ret))]
                          /\ signed' = [signed EXCEPT
                                 ![target] = [state |-> "signed", key |-> key,
                                              sig |-> sig, payload |-> payload.ret]]
                          /\ last' = SignReport(p, key, output_path, signer, FALSE, TRUE, payload.ret, "", target)
  /\ UNCHANGED <<binding, edits, invVars>>

\* sign_manifest(manifest_path, secret_key_path) on a manifest that exists,
\* with a working signer: the manifest file is overwritten.
SignManifest(p, key) ==
  /\ files[p].exists
  /\ SignManifestRun(p, key, NoOutput, "ok")

\* verify_manifest(manifest_path, public_key_path)
VerifyManifest(p, pubkey) ==
  /\ LET r == verify_manifest(p, pubkey)
     IN last' = Report("verify", p, pubkey, r.raised, r.ok, <<>>, <<>>)
  /\ UNCHANGED <<files, issued, nsig, binding, signed, edits, invVars>>

\* check_tag_protection("manifest", pubkey_path)
TagProtect(pubkey) ==
  /\ LET r == check_tag_protection("manifest", pubkey)
     IN last' = Report("gate", "manifest", pubkey, r.raised, r.all_valid, <<>>, r.results)
  /\ UNCHANGED <<files, issued, nsig, binding, signed, edits, invVars>>

\* One line main prints: the stream, the mark in front, the manifest named
\* and the text.
OutLine(stream, mark, manifest, text) ==
  [stream |-> stream, mark |-> mark, manifest |-> manifest, text |-> text]
Banner == <<OutLine("stdout", "", "", "Tag Protection Validation")>>
ResultLines(results) ==
  [i \in 1..Len(results) |->
     OutLine("stdout", IF results[i].success THEN "ok" ELSE "fail",
             results[i].manifest, results[i].message)]
Summary(all_valid) ==
  IF all_valid
  THEN <<OutLine("stdout", "ok", "", "All manifests have valid signatures")>>
  ELSE <<OutLine("stderr", "fail", "", "Some manifests have invalid or missing signatures")>>

\* main() after check_tag_protection returned: unless --quiet the banner, one
\* line per result and the summary; the exit status is 0 when all_valid.  The
\* result list of an empty directory holds a str, and result["success"] on it
\* raises TypeError after the banner.
main_print(r, quiet) ==
  IF quiet THEN [raised |-> FALSE, status |-> IF r.all_valid THEN 0 ELSE 1, printed |-> <<>>]
  ELSE IF \E i \in 1..Len(r.results) : r.results[i].path = ""
  THEN [raised |-> TRUE, status |-> 1, printed |-> Banner]
  ELSE [raised |-> FALSE, status |-> IF r.all_valid THEN 0 ELSE 1,
        printed |-> Banner \o ResultLines(r.results) \o Summary(r.all_valid)]

\* tag_protect_unsigned.py --manifest-dir manifest --pubkey <pubkey> [--quiet];
\* "none" is the empty --pubkey, which check_tag_protection takes for no key.
TagProtectMain(pubkey, quiet) ==
  /\ LET r == check_tag_protection("manifest", pubkey)
         shown == IF r.raised
                  THEN [raised |-> TRUE, status |-> 1, printed |-> <<>>]
                  ELSE main_print(r, quiet)
     IN last' = [op |-> "gate-main", path |-> "manifest", pubkey |-> pubkey,
                 raised |-> shown.raised, ok |-> shown.status = 0, payload |-> <<>>,
                 results |-> r.results, quiet |-> quiet, printed |-> shown.printed]
  /\ UNCHANGED <<files, issued, nsig, binding, signed, edits, invVars>>

\* ------------------------------------------------------ edits made by hand

\* The keys and values an edit writes.
TamperKeys == {"extra"}
TamperValues == {Str("evil"), Null}

KeysOf(m) == {m[i].k : i \in 1..Len(m)}
RemoveAt(m, i) == SubSeq(m, 1, i - 1) \o SubSeq(m, i + 1, Len(m))
\* The one entry an edit of "a field other than signing.signature.value"
\* leaves alone.
IsSignatureValue(path, k) == path = <<"signing", "signature">> /\ k = "value"

\* Every mapping that differs from m by one change: a key removed, renamed or
\* added, or a value replaced, at this level or in a nested mapping.
RECURSIVE Mutations(_, _)
Mutations(m, path) ==
  LET open == {i \in 1..Len(m) : ~IsSignatureValue(path, m[i].k)} IN
    {RemoveAt(m, i) : i \in open}
    \cup {[m EXCEPT ![i] = Entry(k, m[i].v)] : i \in open, k \in TamperKeys \ KeysOf(m)}
    \cup UNION {{[m EXCEPT ![i] = Entry(m[i].k, v)] : v \in TamperValues \ {m[i].v}} :
                 i \in open}
    \cup {Append(m, Entry(k, v)) : k \in TamperKeys \ KeysOf(m), v \in TamperValues}
    \cup UNION {{[m EXCEPT ![i] = Entry(m[i].k, Map(mm))] :
                   mm \in Mutations(m[i].v.m, Append(path, m[i].k))} :
                 i \in {j \in 1..Len(m) : m[j].v.t = "map"}}

\* An edit of the manifest file after it was signed: yaml.safe_load, one
\* change outside signing.signature.value, yaml.dump(sort_keys=False).
Tamper(p) ==
  /\ files[p].exists
  /\ edits < MaxEdits
  /\ signed[p].state # "none"
  /\ LET data == ordered_load(files[p].lines) IN
       /\ data.t = "map"
       /\ \E m \in Mutations(data.m, <<>>) :
            files' = [files EXCEPT ![p] = File(ordered_dump(Map(m)))]
  /\ signed' = [signed EXCEPT ![p].state =
                  IF signed[p].state = "signed" THEN "tampered" ELSE "edited"]
  /\ edits' = edits + 1
  /\ last' = Report("tamper", p, "none", FALSE, TRUE, <<>>, <<>>)
  /\ UNCHANGED <<issued, nsig, binding, invVars>>

\* The three ways the signature is taken out of a signed manifest.
RemovalForms == {"value", "signature", "signing"}
Removed(data, form) ==
  LET signing == Get(data.m, "signing")
      signature == Get(signing.m, "signature")
  IN CASE form = "value" ->
            Map(SetKey(data.m, "signing",
              Map(SetKey(signing.m, "signature", Map(DelKey(signature.m, "value"))))))
       [] form = "signature" ->
            Map(SetKey(data.m, "signing", Map(DelKey(signing.m, "signature"))))
       [] OTHER -> Map(DelKey(data.m, "signing"))

\* del data['signing']['signature']['value'] (or the section holding it) on a
\* signed manifest, written back with yaml.dump.
RemoveValue(p, form) ==
  /\ files[p].exists
  /\ edits < MaxEdits
  /\ signed[p].state = "signed"
  /\ files' = [files EXCEPT
        ![p] = File(ordered_dump(Removed(ordered_load(files[p].lines), form)))]
  /\ signed' = [signed EXCEPT ![p].state = "removed"]
  /\ edits' = edits + 1
  /\ last' = Report("remove", p, "none", FALSE, TRUE, <<>>, <<>>)
  /\ UNCHANGED <<issued, nsig, binding, invVars>>

\* ------------------------------------------------------- initial manifests

NameEntry == Entry("name", Str("app"))
Signing(m) == Entry("signing", Map(m))
SignatureSec(m) == Entry("signature", Map(m))
ValueEntry(s) == Entry("value", Str(s))
KeyId == Entry("key_id", Str("release"))
CreatedAt == Entry("created_at", Str("2024"))

\* Well-formed manifests: no signing section, an empty or partly filled one, a
\* placeholder, or a signature from an earlier release.
InitDocs ==
  { Map(<<>>),
    Map(<<NameEntry>>),
    Map(<<NameEntry, Signing(<<>>)>>),
    Map(<<NameEntry, Signing(<<KeyId>>)>>),
    Map(<<NameEntry, Signing(<<SignatureSec(<<>>)>>)>>),
    Map(<<NameEntry, Signing(<<SignatureSec(<<CreatedAt>>)>>)>>),
    Map(<<NameEntry, Signing(<<SignatureSec(<<ValueEntry(Placeholder)>>)>>)>>),
    Map(<<Signing(<<SignatureSec(<<ValueEntry(Placeholder)>>)>>), NameEntry>>),
    Map(<<Signing(<<SignatureSec(<<ValueEntry("oldsig"), CreatedAt>>), KeyId>>), NameEntry>>),
    Map(<<NameEntry, Signing(<<SignatureSec(<<ValueEntry("")>>), KeyId>>)>>) }

\* Manifests that keep their fields under doc_index.
DocIndex(m) == Entry("doc_index", Map(m))
IndexDocs ==
  { Map(<<DocIndex(<<NameEntry, Signing(<<SignatureSec(<<ValueEntry("oldsig")>>)>>)>>)>>),
    Map(<<DocIndex(<<NameEntry, Signing(<<SignatureSec(<<ValueEntry(Placeholder)>>)>>)>>)>>) }

WorkPath == "manifest/a.yaml"

\* ----------------------------------------------------------- hash_inventory

\* Byte strings are sequences of tokens; a digest is the term of its input, so
\* two inputs have the same digest only when they are the same bytes.
sha256(bytes) == <<"sha256(">> \o bytes \o <<")">>
\* .hexdigest() / .hex() and bytes.fromhex()
hexdigest(digest) == <<"hex">> \o digest
fromhex(text) == Tail(text)

\* A pathlib.Path is the sequence of its parts.  The files of the tree, by
\* their path relative to the root directory.
InvFiles ==
  { <<"README.md">>, <<"core", "main.py">>, <<"core", "__pycache__", "main.pyc">>,
    <<"tools", "sign.py">>, <<".git", "config">> }
\* The files every tree of the model holds; the others may be missing.
KeptFiles == { <<"core", "__pycache__", "main.pyc">>, <<".git", "config">> }
Absent == [exists |-> FALSE, bytes |-> <<>>, readable |-> FALSE]
Content(bytes) == [exists |-> TRUE, bytes |-> bytes, readable |-> TRUE]
Contents == { <<"c1">>, <<"c2">> }

\* The root argument: "." (Path(".") has no parts) or the directory "proj"
\* seen from its parent.
RootArgs == { <<>>, <<"proj">> }

\* str(p).replace("\\", "/"): the parts joined by "/".
PathStr(p) == [sep |-> "/", parts |-> p]

\* An include pattern: "dir/**" (wild) or a literal path.  fnmatch's * also
\* matches "/", so "dir/**" matches every string that starts with "dir/".
Wild(parts) == [parts |-> parts, wild |-> TRUE]
Exact(parts) == [parts |-> parts, wild |-> FALSE]
fnmatch(name, pat) ==
  IF pat.wild
  THEN /\ Len(name.parts) > Len(pat.parts)
       /\ SubSeq(name.parts, 1, Len(pat.parts)) = pat.parts
  ELSE name.parts = pat.parts

\* The default of --include; action="append" puts the caller's patterns
\* after the defaults.
DefaultInclude ==
  << Wild(<<"core">>), Wild(<<"tools">>), Exact(<<"README.md">>),
     Exact(<<"LICENSE">>), Exact(<<"Makefile">>) >>
IncludeArgs ==
  { <<>>,
    <<Exact(<<"core", "main.py">>)>>,
    <<Wild(<<".git">>), Exact(<<"core", "main.py">>)>>,
    <<Wild(<<"proj">>)>> }

\* p.suffix of the file names of the tree
NameSuffix(name) ==
  CASE name = "main.pyc" -> ".pyc"
    [] name \in {"main.py", "sign.py"} -> ".py"
    [] name = "README.md" -> ".md"
    [] OTHER -> ""
\* "__pycache__" in p.parts or p.suffix == ".pyc"
Skipped(p) ==
  \/ \E i \in 1..Len(p) : p[i] = "__pycache__"
  \/ NameSuffix(p[Len(p)]) = ".pyc"

\* The orders in which a set, or a list, can be listed.
Orders(S) ==
  { s \in [1..Cardinality(S) -> S] : \A i, j \in 1..Cardinality(S) : s[i] = s[j] => i = j }
Reorderings(list) ==
  { [i \in 1..Len(list) |-> list[f[i]]] : f \in Orders(1..Len(list)) }

\* root.rglob("*") restricted to files: root / relative path, in the order
\* the filesystem lists them.
Walks(root) == Orders({ root \o f : f \in { g \in InvFiles : tree[g].exists } })

\* for pat in args.include: for p in root.rglob("*"): ... files.append(p)
RECURSIVE Collect(_, _)
Collect(include, walk) ==
  IF include = <<>> THEN <<>>
  ELSE SelectSeq(walk, LAMBDA p : ~Skipped(p) /\ fnmatch(PathStr(p), Head(include)))
         \o Collect(Tail(include), walk)

\* Path objects compare by their parts, each part as a str.
NameOrder ==
  << ".git", "LICENSE", "Makefile", "README.md", "__pycache__", "config", "core",
     "main.py", "main.pyc", "proj", "sign.py", "tools" >>
NameRank(name) == CHOOSE i \in 1..Len(NameOrder) : NameOrder[i] = name
RECURSIVE PathLess(_, _)
PathLess(p, q) ==
  IF p = <<>> THEN q # <<>>
  ELSE IF q = <<>> THEN FALSE
  ELSE IF Head(p) = Head(q) THEN PathLess(Tail(p), Tail(q))
  ELSE NameRank(Head(p)) < NameRank(Head(q))

\* Faulty variant: the files are hashed in the order they were collected.
unsorted(list) == list

\* sorted(files): ascending, a path collected twice stays twice.
RECURSIVE sorted(_)
sorted(list) ==
  IF list = <<>> THEN <<>>
  ELSE LET rest == sorted(Tail(list))
           before == SelectSeq(rest, LAMBDA q : PathLess(q, Head(list)))
           after == SelectSeq(rest, LAMBDA q : ~PathLess(q, Head(list)))
       IN before \o <<Head(list)>> \o after

\* Faulty variant: a file that cannot be opened is hashed as if it were empty.
read_or_empty(file) == [raised |-> FALSE, bytes |-> IF file.readable THEN file.bytes ELSE <<>>]

\* open(p, "rb") and the chunked read: the bytes of the file, or the OSError
\* of a file that cannot be read.
read_file(file) ==
  IF file.readable THEN [raised |-> FALSE, bytes |-> file.bytes]
  ELSE [raised |-> TRUE, bytes |-> <<>>]

\* Faulty variant: a trailing node without a partner is left out of the
\* next level.
merkle_level_dropping(level) ==
  IF Len(level) = 1 THEN <<sha256(level[1] \o level[1])>>
  ELSE [k \in 1..(Len(level) \div 2) |-> sha256(level[2 * k - 1] \o level[2 * k])]

\* Faulty variant: a trailing node without a partner moves up as it is.
merkle_level_promoting(level) ==
  [k \in 1..((Len(level) + 1) \div 2) |->
     IF 2 * k <= Len(level) THEN sha256(level[2 * k - 1] \o level[2 * k])
     ELSE level[2 * k - 1]]

\* One pass of the while loop: nxt holds sha256(a + b) for i = 0, 2, 4, ...
\* with b = level[i+1] if i+1 < len(level) else a.
merkle_level(level) ==
  [k \in 1..((Len(level) + 1) \div 2) |->
     sha256(level[2 * k - 1] \o
            (IF 2 * k <= Len(level) THEN level[2 * k] ELSE level[2 * k - 1]))]

\* The out dict and the file json.dump writes; no file before the first run.
NoInventory == [algo |-> "", entries |-> <<>>, merkle_root |-> <<>>]
Inventory(entries, root_hash) ==
  [algo |-> "sha256", entries |-> entries, merkle_root |-> root_hash]

\* The variables of the script between two runs.
Idle ==
  [pc |-> "idle", include |-> <<>>, files |-> <<>>, entries |-> <<>>, level |-> <<>>,
   root_hash |-> <<>>, wrote |-> FALSE, printed |-> <<>>]

\* What the next run is compared with: after a finished run, that run's
\* inventory, the tree it hashed and the include list it was given.
Carried ==
  IF hi.pc = "done"
  THEN [hist EXCEPT !.prev = out, !.prevTree = tree, !.prevInclude = hi.include,
                    !.compared = TRUE]
  ELSE hist

\* Lines 11-19 and the sorted() of line 22: the include list (the caller's
\* patterns in some order after the defaults), one walk of the tree per
\* pattern, the matching files collected and sorted.
Enumerate ==
  /\ hi.pc \in {"idle", "done", "aborted"}
  /\ \E user \in Reorderings(hist.user), walk \in Walks(hist.root) :
       hi' = [Idle EXCEPT !.pc = "hash",
                          !.include = DefaultInclude \o user,
                          !.files = sorted(Collect(DefaultInclude \o user, walk))]
  /\ hist' = Carried
  /\ UNCHANGED <<tree, out>>
  /\ UNCHANGED <<files, issued, nsig, binding, signed, edits, last>>

\* The file in the tree behind the path p the run collected.
TreeFile(p) == tree[SubSeq(p, Len(hist.root) + 1, Len(p))]

\* Lines 22-27, one file: read and digest it, append its entry; a file that
\* cannot be read ends the run with the exception.  After the last file
\* line 29 takes the digests out of the entries.
HashNext ==
  /\ hi.pc = "hash"
  /\ IF Len(hi.entries) = Len(hi.files)
     THEN hi' = [hi EXCEPT !.pc = "merkle",
                    !.level = [i \in 1..Len(hi.entries) |-> fromhex(hi.entries[i].sha256)]]
     ELSE LET p == hi.files[Len(hi.entries) + 1]
              f == read_file(TreeFile(p))
          IN IF f.raised
             THEN hi' = [hi EXCEPT !.pc = "aborted"]
             ELSE hi' = [hi EXCEPT !.entries =
                           Append(@, [path |-> PathStr(p),
                                      sha256 |-> hexdigest(sha256(f.bytes))])]
  /\ UNCHANGED <<tree, out, hist>>
  /\ UNCHANGED <<files, issued, nsig, binding, signed, edits, last>>

\* Lines 30-40: no leaf gives the digest of the empty byte string; otherwise
\* one pass of the while loop, or the last node as the root.
Merkle ==
  /\ hi.pc = "merkle"
  /\ IF hi.level = <<>>
     THEN hi' = [hi EXCEPT !.pc = "write", !.root_hash = hexdigest(sha256(<<>>))]
     ELSE IF Len(hi.level) > 1
     THEN hi' = [hi EXCEPT !.level = merkle_level(@)]
     ELSE hi' = [hi EXCEPT !.pc = "write", !.root_hash = hexdigest(hi.level[1])]
  /\ UNCHANGED <<tree, out, hist>>
  /\ UNCHANGED <<files, issued, nsig, binding, signed, edits, last>>

\* Lines 42-45: the out dict is written to the --out file.  The file
\* (manifest/hash-inventory.json unless --out names another) matches none of
\* the include patterns used here, so a run leaves the hashed tree as it is.
WriteOut ==
  /\ hi.pc = "write"
  /\ out' = Inventory(hi.entries, hi.root_hash)
  /\ hi' = [hi EXCEPT !.pc = "print", !.wrote = TRUE]
  /\ UNCHANGED <<tree, hist>>
  /\ UNCHANGED <<files, issued, nsig, binding, signed, edits, last>>

\* Line 46: print(root_hash)
PrintRoot ==
  /\ hi.pc = "print"
  /\ hi' = [hi EXCEPT !.pc = "done", !.printed = hi.root_hash]
  /\ UNCHANGED <<tree, out, hist>>
  /\ UNCHANGED <<files, issued, nsig, binding, signed, edits, last>>

\* Between two runs a file of the tree gets other content, or can no longer
\* be read, or after a run a file that was missing is added (a copy of an
\* existing one: every file of the first tree holds c1).
ChangeTree ==
  /\ hi.pc \in {"idle", "done", "aborted"}
  /\ hist.changes < MaxChanges
  /\ \E f \in InvFiles :
       \/ /\ tree[f].exists
          /\ \E bytes \in Contents \ {tree[f].bytes} :
               tree' = [tree EXCEPT ![f].bytes = bytes]
       \/ /\ tree[f].exists
          /\ tree[f].readable
          /\ tree' = [tree EXCEPT ![f].readable = FALSE]
       \/ /\ ~tree[f].exists
          /\ hi.pc # "idle"
          /\ tree' = [tree EXCEPT ![f] = Content(<<"c1">>)]
  /\ hist' = [Carried EXCEPT !.changes = @ + 1]
  /\ hi' = Idle
  /\ UNCHANGED out
  /\ UNCHANGED <<files, issued, nsig, binding, signed, edits, last>>

\* No inventory run: the state of the tree and of the script while the
\* manifest tools are at work.
NoRun ==
  /\ tree = [f \in InvFiles |-> Absent]
  /\ hi = Idle
  /\ out = NoInventory
  /\ hist = [root |-> <<>>, user |-> <<>>, prev |-> NoInventory,
             prevTree |-> [f \in InvFiles |-> Absent], prevInclude |-> <<>>,
             compared |-> FALSE, changes |-> 0]

\* ------------------------------------------------------------ specification

\* One manifest file, signed, edited, re-signed and verified.
Init ==
  /\ \E d \in InitDocs :
       files = [p \in Paths |-> IF p = WorkPath THEN File(ordered_dump(d)) ELSE NoFile]
  /\ issued = {}
  /\ nsig = 0
  /\ binding = "inline"
  /\ signed = [p \in Paths |-> NotSigned]
  /\ edits = 0
  /\ last = Report("init", "", "none", FALSE, TRUE, <<>>, <<>>)
  /\ NoRun

Next ==
  \/ \E k \in SecretKeys : SignManifest(WorkPath, k)
  \/ Tamper(WorkPath)
  \/ \E form \in RemovalForms : RemoveValue(WorkPath, form)
  \/ \E pk \in PubArgs : VerifyManifest(WorkPath, pk)

Spec == Init /\ [][Next]_vars

\* A directory of manifests, signed and put through the release gate.
GateDocs ==
  { Map(<<NameEntry>>),
    Map(<<NameEntry, Signing(<<SignatureSec(<<ValueEntry(Placeholder)>>)>>)>>) }
    \cup IndexDocs
\* A manifest whose doc_index was left empty (null); b.yml may be one.
EmptyIndexDoc == Map(<<NameEntry, Entry("doc_index", Null)>>)

InitGate ==
  /\ files \in
       { f \in [Paths -> {NoFile} \cup
                          {File(ordered_dump(d)) : d \in GateDocs \cup {EmptyIndexDoc}}] :
           \A p \in Paths \ {"manifest/b.yml"} : f[p] # File(ordered_dump(EmptyIndexDoc)) }
  /\ issued = {}
  /\ nsig = 0
  /\ binding \in {"imported", "inline"}
  /\ signed = [p \in Paths |-> NotSigned]
  /\ edits = 0
  /\ last = Report("init", "", "none", FALSE, TRUE, <<>>, <<>>)
  /\ NoRun

\* The release signs its manifest WorkPath; the other files of the directory
\* are as the release found them.
NextGate ==
  \/ \E k \in SecretKeys : SignManifest(WorkPath, k)
  \/ \E pk \in PubArgs : VerifyManifest(WorkPath, pk)
  \/ \E pk \in PubArgs : TagProtect(pk)
  \/ \E pk \in PubArgs, quiet \in BOOLEAN : TagProtectMain(pk, quiet)

SpecGate == InitGate /\ [][NextGate]_vars

\* --------------------------------------------------------- check_schema_uri

\* The schema URIs a manifest names and a caller expects.
DefaultSchemaUri == "schema/manifest.schema.json"
ExpectedUris == {DefaultSchemaUri, "schema/v2.schema.json"}

\* The Python values a check hands back: a (success, message) tuple, a bool.
PyTuple(success, message) == [t |-> "tuple", b |-> success, message |-> message]
PyBool(b) == [t |-> "bool", b |-> b, message |-> ""]
\* `result is True`
IsTrue(result) == result.t = "bool" /\ result.b

\* The three returns after the lookup: not found, mismatch, correct.
UriVerdict(schema_uri, expected_uri) ==
  IF ~Truthy(schema_uri)
  THEN Returned(PyTuple(FALSE, "No schema_uri field found"), Null)
  ELSE IF schema_uri # Str(expected_uri)
  THEN Returned(PyTuple(FALSE, "Schema URI mismatch"), Null)
  ELSE Returned(PyTuple(TRUE, "Schema URI correct"), Null)

\* check_schema_uri(manifest_path, expected_uri): a file that does not load
\* is a failure; data.get("schema_uri") or data.get("doc_index", {}).get(
\* "schema_uri") raises AttributeError when data or doc_index is no mapping.
check_schema_uri(p, expected_uri) ==
  IF ~files[p].exists
  THEN Returned(PyTuple(FALSE, "Failed to load manifest"), Null)
  ELSE LET data == ordered_load(files[p].lines) IN
       IF data.t # "map" THEN Raised(Null)
       ELSE LET top == GetOr(data.m, "schema_uri", Null) IN
            IF Truthy(top) THEN UriVerdict(top, expected_uri)
            ELSE LET doc_index == GetOr(data.m, "doc_index", Map(<<>>)) IN
                 IF doc_index.t # "map" THEN Raised(Null)
                 ELSE UriVerdict(GetOr(doc_index.m, "schema_uri", Null), expected_uri)

\* test_schema_uri_check_integration: result = check_schema_uri(manifest,
\* expected); assert result is True.
CheckSchemaUri(p, expected_uri) ==
  /\ LET r == check_schema_uri(p, expected_uri)
     IN last' = [op |-> "schema_uri", path |-> p, pubkey |-> "none",
                 raised |-> r.raised, ok |-> ~r.raised /\ IsTrue(r.ret),
                 payload |-> <<>>, results |-> <<>>,
                 expected |-> expected_uri, result |-> r.ret]
  /\ UNCHANGED <<files, issued, nsig, binding, signed, edits, invVars>>

\* Manifests with a schema_uri at top level (the test's sample manifest), under
\* doc_index, at both places, with another URI, and with an empty doc_index.
SchemaUri(s) == Entry("schema_uri", Str(s))
UriDocs ==
  { Map(<<SchemaUri(DefaultSchemaUri), NameEntry>>),
    Map(<<SchemaUri("schema/old.schema.json"), NameEntry>>),
    Map(<<NameEntry, DocIndex(<<SchemaUri(DefaultSchemaUri)>>)>>),
    Map(<<SchemaUri("schema/old.schema.json"), DocIndex(<<SchemaUri(DefaultSchemaUri)>>)>>),
    Map(<<SchemaUri(""), DocIndex(<<SchemaUri("schema/v2.schema.json")>>)>>),
    Map(<<NameEntry, Entry("doc_index", Null)>>) }

\* ------------------------------------------------------------- validate_all

\* What a child process leaves: its exit status and the texts on its stderr
\* (messages, and the paths they name).
Exited(returncode, stderr) == [returncode |-> returncode, stderr |-> stderr]

\* The options of verify_manifest.py: -p/--public-key, required.
VerifierOptions == {"-p", "--public-key"}

\* python3 tools/verify_manifest.py <manifest> [<option> <pubkey>]: argparse
\* ends the run with status 2 and a usage message when the required option is
\* missing or the option given is not one of the parser; otherwise the exit
\* status is verify_manifest's answer, 1 also for an uncaught exception.
verify_manifest_cli(p, option, pubkey) ==
  IF option \notin VerifierOptions
  THEN Exited(2, <<"usage: verify_manifest.py [-h] -p PUBLIC_KEY manifest",
                   "the following arguments are required: -p/--public-key">>)
  ELSE LET r == verify_manifest(p, pubkey) IN
       IF r.raised THEN Exited(1, <<"Traceback">>)
       ELSE IF r.ok THEN Exited(0, <<>>)
       ELSE Exited(1, <<"Error", p, pubkey>>)

\* Faulty variant: every failure of the child is taken for a placeholder.
stderr_any(stderr) == TRUE

\* "placeholder" in result.stderr.lower()
stderr_placeholder(stderr) ==
  \E i \in 1..Len(stderr) : StrContains(stderr[i], "placeholder")

\* check_manifest_signature(manifest_path, pubkey): the verifier is run as a
\* child, with --pubkey <pubkey> when a key is given; exit status 0 is
\* success, a stderr that mentions a placeholder too.
check_manifest_signature(p, pubkey) ==
  LET option == IF pubkey # "none" THEN "--pubkey" ELSE ""
      result == verify_manifest_cli(p, option, pubkey)
  IN IF result.returncode = 0 THEN TRUE
     ELSE stderr_placeholder(result.stderr)

\* validate_all.py --manifest p [--pubkey pubkey]: five checks, each through
\* run_check; SOME CHECKS FAILED and exit status 1 unless all five pass.
\* `others` is the outcome of checks 1 to 4.
ValidateAll(p, pubkey, others) ==
  /\ LET signature_check == check_manifest_signature(p, pubkey)
         checks == <<others, others, others, others, signature_check>>
         passed == Cardinality({i \in 1..Len(checks) : checks[i]})
     IN last' = [op |-> "validate", path |-> p, pubkey |-> pubkey,
                 raised |-> FALSE, ok |-> passed = Len(checks), payload |-> <<>>,
                 results |-> <<>>, others |-> others,
                 signature_check |-> signature_check]
  /\ UNCHANGED <<files, issued, nsig, binding, signed, edits, invVars>>

\* ------------------------------------------- signer runs and schema checks

OutputPath == "manifest/b.yml"
AbsentPath == "manifest/sub/c.yaml"

\* One manifest file; the signer is run on it and on a path that does not
\* exist, with and without --output, with a key file that may be missing and
\* an external signer that may fail; the schema URI of the files is checked.
InitSign ==
  /\ \E d \in InitDocs \cup UriDocs :
       files = [p \in Paths |-> IF p = WorkPath THEN File(ordered_dump(d)) ELSE NoFile]
  /\ issued = {}
  /\ nsig = 0
  /\ binding = "inline"
  /\ signed = [p \in Paths |-> NotSigned]
  /\ edits = 0
  /\ last = Report("init", "", "none", FALSE, TRUE, <<>>, <<>>)
  /\ NoRun

NextSign ==
  \/ \E p \in {WorkPath, AbsentPath}, key \in KeyArgs,
        output_path \in {NoOutput, OutputPath}, signer \in SignerModes :
       SignManifestRun(p, key, output_path, signer)
  \/ \E p \in {WorkPath, OutputPath}, expected_uri \in ExpectedUris :
       CheckSchemaUri(p, expected_uri)
  \/ \E pubkey \in PubArgs, others \in BOOLEAN : ValidateAll(WorkPath, pubkey, others)

SpecSign == InitSign /\ [][NextSign]_vars

\* ------------------------------------------------------- inventory runs

\* A tree of readable files, the root argument and the caller's include
\* patterns; hash_inventory is run on it again and again, the tree changing
\* between runs.
InitInv ==
  /\ tree \in { t \in [InvFiles -> {Absent, Content(<<"c1">>)}] :
                  \A f \in KeptFiles : t[f].exists }
  /\ hi = Idle
  /\ out = NoInventory
  /\ \E root \in RootArgs, user \in IncludeArgs :
       hist = [root |-> root, user |-> user, prev |-> NoInventory,
               prevTree |-> tree, prevInclude |-> <<>>, compared |-> FALSE,
               changes |-> 0]
  /\ files = [p \in Paths |-> NoFile]
  /\ issued = {}
  /\ nsig = 0
  /\ binding = "inline"
  /\ signed = [p \in Paths |-> NotSigned]
  /\ edits = 0
  /\ last = Report("init", "", "none", FALSE, TRUE, <<>>, <<>>)

NextInv ==
  \/ Enumerate
  \/ HashNext
  \/ Merkle
  \/ WriteOut
  \/ PrintRoot
  \/ ChangeTree

SpecInv == InitInv /\ [][NextInv]_vars

\* ------------------------------------------------------------------ claims

\* The operation reported Valid / returned False, without raising.
ReportedValid == ~last.raised /\ last.ok
ReportedFalse == ~last.raised /\ ~last.ok
\* The last operation verified, with the public key matching the secret key
\* of the last signing run, a file whose state since that run is st.
VerifiedAfter(st) ==
  /\ last.op = "verify"
  /\ signed[last.path].state = st
  /\ last.pubkey = signed[last.path].key

\* C1: round trip -- verify_manifest with the matching public key returns
\* True on every manifest file that sign_manifest has just written.
RoundTrip == VerifiedAfter("signed") => ReportedValid

\* C2: tamper detection -- after one change outside signing.signature.value
\* to a signed manifest, verify_manifest with the matching key returns False.
TamperDetected == VerifiedAfter("tampered") => ReportedFalse

\* The part of C2 the verifier keeps: a tampered manifest is never Valid.
TamperNeverValid == VerifiedAfter("tampered") => ~ReportedValid

\* strip(insert(strip(d), s)) and strip(d), as values
Strip(d) == remove_signature(d).ret
StripInsertStrip(d, s) == Strip(insert_signature(Strip(d), s).ret)
Signable(d) ==
  /\ ~remove_signature(d).raised
  /\ ~insert_signature(Strip(d), "s").raised

\* C3: payload invariance -- strip(insert(strip(d), s)) = strip(d) for the
\* document d of every manifest file and every signature s, and the payload
\* recomputed from the file sign_manifest wrote is the payload it signed.
PayloadInvariance ==
  /\ \A p \in Paths :
       (files[p].exists /\ Signable(ordered_load(files[p].lines))) =>
         \A s \in {SigName(n) : n \in 1..MaxSigs} :
           StripInsertStrip(ordered_load(files[p].lines), s)
             = Strip(ordered_load(files[p].lines))
  /\ (last.op = "sign" /\ ReportedValid) =>
       canonical_payload(ordered_load(files[last.path].lines)).ret = last.payload

\* C4: signature removal -- once signing.signature.value (or the section
\* holding it) is deleted from a signed manifest, verify_manifest returns
\* False and does not raise, whatever public key it is given.
SignatureRemovalDetected ==
  (last.op = "verify" /\ signed[last.path].state = "removed") => ReportedFalse

SignatureRemovalWitness ==
  /\ VerifiedAfter("removed")
  /\ ReportedFalse
  /\ HasKey(ordered_load(files[last.path].lines).m, "signing")

\* The signature value each checker reads from the manifest file at p.
TopLevelValue(p) == extract_signature(ordered_load(files[p].lines))
IndexValue(p) ==
  LET data == ordered_load(files[p].lines)
      doc_index == GetOr(data.m, "doc_index", Map(<<>>))
      signing == GetOr(doc_index.m, "signing", Map(<<>>))
      signature_obj == GetOr(signing.m, "signature", Map(<<>>))
  IN GetOr(signature_obj.m, "value", Str(""))

\* C5: placeholder rejection -- a manifest whose signature value, as the
\* checker reads it, is the placeholder sentinel is never reported valid:
\* not by verify_manifest, not in the gate's per-manifest results, with or
\* without a public key.
PlaceholderRejected ==
  /\ (last.op = "verify" /\ files[last.path].exists
        /\ TopLevelValue(last.path).ret = Str(Placeholder)) => ~ReportedValid
  /\ (last.op = "gate" /\ ~last.raised) =>
       \A i \in 1..Len(last.results) :
         (last.results[i].path \in Paths
            /\ IndexValue(last.results[i].path) = Str(Placeholder))
           => ~last.results[i].success

PlaceholderWitness ==
  /\ last.op = "gate"
  /\ ~last.raised
  /\ last.pubkey = "none"
  /\ \E i \in 1..Len(last.results) :
       /\ last.results[i].path \in Paths
       /\ IndexValue(last.results[i].path) = Str(Placeholder)
       /\ ~last.results[i].success
       /\ last.results[i].message = "Signature is placeholder or empty"

\* C6: re-signing -- after any run of sign_manifest on a manifest file (a
\* first run, or a later one with the value deleted or the file edited in
\* between), verify_manifest with the matching key accepts the file, whatever
\* signature string the external signer returned.
ReSignVerifies ==
  \A p \in Paths :
    signed[p].state = "signed" =>
      verify_manifest(p, signed[p].key) = Outcome(FALSE, TRUE)

\* C7: gate fail-closed -- when no manifest is discovered in the directory,
\* check_tag_protection returns all_valid = False, for any public key.
GateFailClosed ==
  (last.op = "gate" /\ Discovered("manifest") = {}) => ReportedFalse

GateFailClosedWitness ==
  /\ last.op = "gate"
  /\ Discovered("manifest") = {}
  /\ ReportedFalse
  /\ last.results[1].message = "No manifests found"

\* The outcome of the verify_manifest the gate is bound to is Valid.
BoundValid(p, pubkey) ==
  IF binding = "inline"
  THEN LET v == inline_verify_manifest(p, pubkey) IN ~v.raised /\ v.success
  ELSE verify_manifest(p, pubkey) = Outcome(FALSE, TRUE)

\* C8: gate decision -- check_tag_protection returns a pair and does not
\* raise, and it passes exactly when a manifest was discovered and every
\* discovered manifest is Valid for the verify_manifest the gate is bound to.
GateDecision ==
  last.op = "gate" =>
    /\ ~last.raised
    /\ last.ok <=> /\ Discovered("manifest") # {}
                   /\ \A p \in Discovered("manifest") : BoundValid(p, last.pubkey)

\* C9: a manifest signed by sign_manifest passes the gate -- run with the
\* matching public key, the gate reports the signed manifest valid, having
\* rebuilt the payload bytes that sign_manifest handed to the signer.
SignedPassesGate ==
  (last.op = "gate" /\ signed[WorkPath].state = "signed"
     /\ last.pubkey = signed[WorkPath].key) =>
    /\ ~last.raised
    /\ \E i \in 1..Len(last.results) :
         /\ last.results[i].path = WorkPath
         /\ last.results[i].success
         /\ last.results[i].payload = signed[WorkPath].payload

\* C10: recursive discovery -- every manifest file at any depth under the
\* directory has a result, and one that is not valid makes the gate fail.
GateRecursive ==
  (last.op = "gate" /\ ~last.raised) =>
    \A p \in Paths :
      files[p].exists =>
        /\ \E i \in 1..Len(last.results) : last.results[i].path = p
        /\ ~BoundValid(p, last.pubkey) => ~last.ok

\* ---- C13 ----
\* A sign_manifest run fails when the manifest or the key file is missing, when
\* the external signer exits with an error or is not installed, or when the
\* run ends without a written manifest.
SignRunFails(r) ==
  /\ r.op = "sign"
  /\ \/ ~r.ok
     \/ r.signer # "ok"
     \/ r.key \notin SecretKeys

\* C13: a sign_manifest run that fails changes no file: the manifest and the
\* --output file are after the run what they were before it.
SignFailureWritesNothing ==
  [][SignRunFails(last') => files' = files]_vars

\* A run with --output on an existing manifest whose signer exited with an
\* error, while an earlier run had written the --output file.
SignFailureWitness ==
  /\ last.op = "sign"
  /\ last.why = "signer-failed"
  /\ last.output = OutputPath
  /\ files[OutputPath].exists
  /\ files[last.path].exists

\* ---- C14 ----
SigningOf(data) == GetOr(data.m, "signing", Null)
SignatureOf(data) ==
  IF SigningOf(data).t = "map" THEN GetOr(SigningOf(data).m, "signature", Null) ELSE Null
HasSignatureValue(data) ==
  /\ data.t = "map"
  /\ SignatureOf(data).t = "map"
  /\ HasKey(SignatureOf(data).m, "value")
\* data with signing.signature.value set to v where it stands
WithValue(data, v) ==
  Map(SetKey(data.m, "signing",
    Map(SetKey(SigningOf(data).m, "signature",
      Map(SetKey(SignatureOf(data).m, "value", v))))))
\* data without signing.signature.value; without the signature section when
\* the value was all it held; without the signing section when that was all.
WithoutValue(data) == Removed(data, "value")
WithoutSignature(data) == Removed(data, "signature")
WithoutSigning(data) == Removed(data, "signing")
OnlyValueKey(m) == Len(m) = 1 /\ m[1].k = "value"
OnlySignatureKey(m) == Len(m) = 1 /\ m[1].k = "signature"

\* The written document differs from the input document in
\* signing.signature.value only: with the input's value put back where the new
\* one stands it is the input; for an input without a value, it is the input
\* once the value (and the sections made to hold it) are taken out.
OnlyValueDiffers(input, written) ==
  /\ HasSignatureValue(written)
  /\ IF HasSignatureValue(input)
     THEN WithValue(written, Get(SignatureOf(input).m, "value")) = input
     ELSE \/ WithoutValue(written) = input
          \/ OnlyValueKey(SignatureOf(written).m) /\ WithoutSignature(written) = input
          \/ /\ OnlyValueKey(SignatureOf(written).m)
             /\ OnlySignatureKey(SigningOf(written).m)
             /\ WithoutSigning(written) = input

\* C14: the document a successful sign_manifest run writes differs from the
\* document it read only in signing.signature.value; every other key keeps
\* its value and its position, also on a re-sign.
SignChangesOnlySignature ==
  [][(last'.op = "sign" /\ last'.ok)
       => OnlyValueDiffers(ordered_load(files[last'.path].lines),
                           ordered_load(files'[last'.written].lines))]_vars

\* ---- C16 ----
\* The manifest carries a schema_uri equal to expected, at top level or under
\* doc_index.
CarriesSchemaUri(data, expected_uri) ==
  /\ data.t = "map"
  /\ \/ GetOr(data.m, "schema_uri", Null) = Str(expected_uri)
     \/ /\ GetOr(data.m, "doc_index", Null).t = "map"
        /\ GetOr(GetOr(data.m, "doc_index", Null).m, "schema_uri", Null) = Str(expected_uri)

\* C16: the result of check_schema_uri(manifest, expected) is True exactly
\* when the manifest carries a schema_uri equal to expected, at top level or
\* under doc_index.
SchemaUriCheck ==
  last.op = "schema_uri" =>
    (last.ok <=> /\ files[last.path].exists
                 /\ CarriesSchemaUri(ordered_load(files[last.path].lines), last.expected))

\* ---- C17 ----
\* A line that tells the reader that cryptographic verification was skipped.
SkipWarning(line) == line.text = "cryptographic verification skipped"

\* C17: run without a public key, the gate checks each manifest for signature
\* presence only (non-empty and not the placeholder) and its output holds a
\* visible warning that cryptographic verification was skipped.
GateWarnsWithoutKey ==
  (last.op = "gate-main" /\ last.pubkey = "none" /\ ~last.quiet /\ ~last.raised) =>
    /\ \A i \in 1..Len(last.results) :
         last.results[i].success = inline_presence(IndexValue(last.results[i].path))
    /\ \E i \in 1..Len(last.printed) : SkipWarning(last.printed[i])

\* ---- C11 ----
Finished == hi.pc = "done"
\* The run that just finished follows a finished run over the same tree.
SameTreeAgain == Finished /\ hist.compared /\ hist.prevTree = tree

\* C11: over the same file tree and the same include patterns the inventory
\* (entries and merkle_root) is the same on every run, in whatever order the
\* filesystem lists the files and the caller lists the patterns.
InventoryReproducible == SameTreeAgain => out = hist.prev

\* Two runs over one tree with the caller's two patterns in different order,
\* the inventory holding several files.
ReproducibleWitness ==
  /\ SameTreeAgain
  /\ hi.include # hist.prevInclude
  /\ Len(out.entries) >= 3

\* ---- C12 ----
\* The file f of the tree has an entry in the inventory.
Inventoried(f, inventory) ==
  \E i \in 1..Len(inventory.entries) :
    inventory.entries[i].path = PathStr(hist.root \o f)
\* Since the previous run exactly one file changed, in its content only, and
\* that file is in the inventory.
OneContentChanged(f) ==
  /\ Finished /\ hist.compared
  /\ tree[f].bytes # hist.prevTree[f].bytes
  /\ \A g \in InvFiles \ {f} : tree[g] = hist.prevTree[g]
  /\ tree[f].readable = hist.prevTree[f].readable
  /\ Inventoried(f, out)

\* C12: with other content in exactly one included file and all paths as
\* they were, the merkle_root differs from the one before; without any
\* included file the root is the digest of the empty byte string.
ContentSensitive ==
  /\ \A f \in InvFiles : OneContentChanged(f) => out.merkle_root # hist.prev.merkle_root
  /\ (Finished /\ out.entries = <<>>) => out.merkle_root = hexdigest(sha256(<<>>))

\* The changed file is the last of an odd number of entries: the leaf that is
\* paired with itself.
ContentSensitiveWitness ==
  /\ Len(out.entries) = 3
  /\ \E f \in InvFiles :
       /\ OneContentChanged(f)
       /\ out.entries[3].path = PathStr(hist.root \o f)

\* ---- C15 ----
\* Every file the run collected can be read.
AllReadable == \A i \in 1..Len(hi.files) : TreeFile(hi.files[i]).readable

\* C15: a run that meets a file it cannot read aborts, writes no inventory
\* file (the --out file stays what it was) and prints no root; the inventory
\* is written only after every collected file has its entry.
InventoryAllOrNothing ==
  /\ hi.pc \in {"merkle", "write", "print", "done"} => AllReadable
  /\ hi.pc = "aborted" =>
       /\ ~hi.wrote
       /\ hi.printed = <<>>
       /\ out = IF hist.compared THEN hist.prev ELSE NoInventory
  /\ hi.wrote => Len(out.entries) = Len(hi.files)

\* A run aborted at its second file or later, an earlier inventory on disk.
AbortWitness ==
  /\ hi.pc = "aborted"
  /\ Len(hi.entries) >= 1
  /\ out # NoInventory

\* ---- C18 ----
\* The reference fold: pair adjacent nodes left to right, a trailing node
\* with itself; repeat until one node is left.
RECURSIVE RefPairs(_)
RefPairs(nodes) ==
  IF nodes = <<>> THEN <<>>
  ELSE IF Len(nodes) = 1 THEN <<sha256(nodes[1] \o nodes[1])>>
  ELSE <<sha256(nodes[1] \o nodes[2])>> \o RefPairs(Tail(Tail(nodes)))
RECURSIVE RefFold(_)
RefFold(nodes) == IF Len(nodes) = 1 THEN nodes[1] ELSE RefFold(RefPairs(nodes))
RefRoot(leaves) == IF leaves = <<>> THEN sha256(<<>>) ELSE RefFold(leaves)
LeafDigests(entries) == [i \in 1..Len(entries) |-> fromhex(entries[i].sha256)]

\* C18: the root hash_inventory computes, writes and prints is the reference
\* fold of the leaf digests of its entries; no leaf gives the digest of the
\* empty byte string.
MerkleIsReferenceFold ==
  /\ hi.pc \in {"write", "print", "done"} =>
       hi.root_hash = hexdigest(RefRoot(LeafDigests(hi.entries)))
  /\ hi.wrote => out.merkle_root = hexdigest(RefRoot(LeafDigests(out.entries)))
  /\ Finished => hi.printed = out.merkle_root

\* Five leaves: an odd count at the leaf level (5) and at the next (3).
MerkleOddWitness == Finished /\ Len(out.entries) = 5

\* ---- C19 ----
\* C19: the paths of the inventory's entries are in strictly increasing
\* order, no path twice, whatever the include patterns.
EntriesStrictlyOrdered ==
  hi.wrote =>
    \A i, j \in 1..Len(out.entries) :
      i < j => PathLess(out.entries[i].path.parts, out.entries[j].path.parts)

\* ---- C20 ----
\* The relative path of f matches an include pattern of the run and the
\* fixed filter does not skip it.
Included(f) ==
  /\ tree[f].exists
  /\ ~Skipped(f)
  /\ \E k \in 1..Len(hi.include) : fnmatch(PathStr(f), hi.include[k])

\* C20: for every root argument each entry's path is the path of a file
\* relative to the root directory, and every file under it whose relative
\* path matches an include pattern has an entry.
PathsRelativeToRoot ==
  hi.wrote =>
    /\ \A i \in 1..Len(out.entries) :
         \E f \in InvFiles : tree[f].exists /\ out.entries[i].path = PathStr(f)
    /\ \A f \in InvFiles :
         Included(f) => \E i \in 1..Len(out.entries) : out.entries[i].path = PathStr(f)

\* ---- C21 ----
\* The path lies in version-control metadata or in a compiled cache.
VersionControl(p) == \E i \in 1..Len(p) : p[i] = ".git"
CompiledCache(p) ==
  \/ \E i \in 1..Len(p) : p[i] = "__pycache__"
  \/ NameSuffix(p[Len(p)]) = ".pyc"

\* C21: no written inventory has an entry for a file under .git, under
\* __pycache__ or with the suffix .pyc, whatever patterns the caller passes.
DenyListFixed ==
  hi.wrote =>
    \A i \in 1..Len(out.entries) :
      /\ ~VersionControl(out.entries[i].path.parts)
      /\ ~CompiledCache(out.entries[i].path.parts)

\* ---- C22 ----
\* C22: check_tag_protection returns one result per discovered manifest, in
\* ascending path order; a failure or an error on one manifest does not keep
\* the others from being evaluated and reported.
GateReportsEvery ==
  (last.op = "gate" /\ Discovered("manifest") # {}) =>
    /\ ~last.raised
    /\ [i \in 1..Len(last.results) |-> last.results[i].path]
         = SortedPaths(Discovered("manifest"))

\* ---- C23 ----
\* validate_all was run on a manifest whose signature value is the
\* placeholder / on a manifest without a signature value.
ValidatedPlaceholder ==
  /\ last.op = "validate"
  /\ files[last.path].exists
  /\ ~TopLevelValue(last.path).raised
  /\ TopLevelValue(last.path).ret = Str(Placeholder)
ValidatedUnsigned ==
  /\ last.op = "validate"
  /\ files[last.path].exists
  /\ ~TopLevelValue(last.path).raised
  /\ TopLevelValue(last.path).ret = NoValue

LeavesArgument(call, manifest) == ~call.raised => call.arg = manifest

\* C24: remove_signature and canonical_payload, of the signer and of the
\* verifier, leave the manifest passed to them unchanged at every nesting
\* level: a signed manifest still holds its signing.signature.value after
\* the call.
PayloadLeavesManifest ==
  \A p \in Paths :
    files[p].exists =>
      LET manifest == ordered_load(files[p].lines)
      IN /\ LeavesArgument(remove_signature(manifest), manifest)
         /\ LeavesArgument(canonical_payload(manifest), manifest)
         /\ LeavesArgument(verify_remove_signature(manifest), manifest)
         /\ LeavesArgument(verify_canonical_payload(manifest), manifest)

\* ---- C25 ----
\* The run that just finished follows a finished run, and the leaf digests
\* of the two inventories differ, in length or at some position.
LeavesDiffer ==
  /\ Finished /\ hist.compared
  /\ LeafDigests(out.entries) # LeafDigests(hist.prev.entries)

\* C25: two inventories whose sequences of leaf digests differ have
\* different merkle_root values; a file added after the last file in path
\* order, with the content of that file, changes the root.
MerkleDistinguishes == LeavesDiffer => out.merkle_root # hist.prev.merkle_root

\* ---- C26 ----
\* The last operation ran verify_manifest with a public key path.
VerifiedWithKeyPath == last.op = "verify" /\ last.pubkey # "none"
\* The external verifier accepts the signature of the file at p for the
\* file's canonical payload under this public key.
VerifierAccepts(p, pubkey) ==
  LET manifest == ordered_load(files[p].lines)
  IN verify_detached(verify_canonical_payload(manifest).ret,
                     extract_signature(manifest).ret.s, pubkey)

\* C26: verify_manifest, on every manifest file that loads and every public
\* key path, returns True or False without raising, and returns True only
\* when the external verifier accepted the signature.
VerifyTotalFailClosed ==
  VerifiedWithKeyPath =>
    /\ ~last.raised
    /\ last.ok => VerifierAccepts(last.path, last.pubkey)

====
